---- MODULE Spec2Model ----
(***************************************************************************)
(* A model of the Jaeger trace analyzer (src/analyze_traces.py): the       *)
(* JaegerTraceAnalyzer class, used as a library (one public method called  *)
(* on a constructed analyzer) and driven by the script's main().           *)
(*                                                                         *)
(* Python values are modelled as tagged variants, dicts as records whose   *)
(* DOMAIN is the dict's key set (so dict.get(k, d) is a DOMAIN test), and  *)
(* lists as sequences (1-based here, 0-based in the source).  Floats are   *)
(* modelled as exact fractions [num, den] in lowest terms; float rounding  *)
(* is not modelled.                                                        *)
(*                                                                         *)
(* Two further specifications share the module: EngineSpec, the Predicate  *)
(* Correlation Engine of spec section 4.2, and ServerSpec, the receive     *)
(* sequence of src/server.py over one accepted connection.                 *)
(***************************************************************************)
EXTENDS Integers, Sequences, FiniteSets, TLC

VARIABLES
    entry,        \* "script": main() runs; "library": the class is used directly
    argv,         \* sys.argv[1:], a sequence of strings
    fs,           \* the file system: path -> file content state
    pc,           \* position of the caller (main() or the library user)
    client_data,  \* analyzer / analyzer1 .client_data
    server_data,  \* analyzer / analyzer1 .server_data
    other_data,   \* analyzer2.client_data (comparison only)
    out,          \* what has been printed so far, as a sequence of markers
    clientRes,    \* locals of the latest analyze_client_performance call
    serverRes,    \* locals of the latest analyze_server_performance call
    fileRes,      \* locals of the latest analyze_file_operations call
    overheadRes,  \* locals of the latest analyze_tracing_overhead call
    cmpRes,       \* locals of the latest compare_sampling_rates call
    engine,       \* the correlation engine's accumulator: state, run log, counts
    metrics,      \* what the latest compute_metrics call returned
    conn,         \* server.py: the accepted connection as the server's end sees it
    srv           \* server.py: where the receive sequence is, and its locals

vars == <<entry, argv, fs, pc, client_data, server_data, other_data, out,
          clientRes, serverRes, fileRes, overheadRes, cmpRes,
          engine, metrics, conn, srv>>

\* The two other programs of the repository, while the analyzer is the one
\* that runs.
Correlation == <<engine, metrics>>
Transfer == <<conn, srv>>
NoEngine == [state |-> "none"]
NoMetrics == [computed |-> FALSE]
NoSocket == [open |-> FALSE]
NoServer == [pc |-> "none"]
CorrelationIdle == engine = NoEngine /\ metrics = NoMetrics
TransferIdle == conn = NoSocket /\ srv = NoServer

(***************************************************************************)
(* Bounds of the explored inputs.                                          *)
(***************************************************************************)
\* A document read alone holds traces and spans, together at most MaxSize.
MaxSize == 4
\* Two documents read together hold, each, at most MaxPairSize of them.
MaxPairSize == 2

(***************************************************************************)
(* Python values.                                                          *)
(***************************************************************************)
None == [t |-> "none"]
VInt(n) == [t |-> "int", n |-> n]
VBool(b) == [t |-> "bool", b |-> b]
VFloat(f) == [t |-> "float", f |-> f]

\* Python's truth value of a tag value (None, 0 and False are falsy).
Truthy(v) ==
    CASE v.t = "none" -> FALSE
      [] v.t = "int" -> v.n # 0
      [] v.t = "bool" -> v.b
      [] v.t = "float" -> v.f.num # 0

\* float(v) for the numeric values of the model.
PyFloat(v) ==
    CASE v.t = "float" -> v.f
      [] v.t = "int" -> [num |-> v.n, den |-> 1]
      [] v.t = "bool" -> [num |-> IF v.b THEN 1 ELSE 0, den |-> 1]

\* int(v) for the numeric values of the model.
PyInt(v) ==
    CASE v.t = "int" -> v.n
      [] v.t = "bool" -> IF v.b THEN 1 ELSE 0

(***************************************************************************)
(* Exact fractions for the float arithmetic of the source.                 *)
(***************************************************************************)
Abs(n) == IF n < 0 THEN -n ELSE n

RECURSIVE GCD(_, _)
GCD(a, b) == IF b = 0 THEN a ELSE GCD(b, a % b)

\* num/den in lowest terms with den > 0; den = 0 never reaches this operator
\* in the source's arithmetic without a ZeroDivisionError first.
Frac(num, den) ==
    LET g == GCD(Abs(num), Abs(den))
        s == IF den < 0 THEN -1 ELSE 1
    IN  IF g = 0 THEN [num |-> 0, den |-> 1]
        ELSE [num |-> s * (num \div g), den |-> s * (den \div g)]

FracOfInt(n) == [num |-> n, den |-> 1]
FracDiv(a, b) ==
    LET g1 == GCD(Abs(a.num), Abs(b.num))
        g2 == GCD(Abs(b.den), Abs(a.den))
        h1 == IF g1 = 0 THEN 1 ELSE g1
        h2 == IF g2 = 0 THEN 1 ELSE g2
    IN  Frac((a.num \div h1) * (b.den \div h2), (a.den \div h2) * (b.num \div h1))
FracMul(a, b) == FracDiv(a, [num |-> b.den, den |-> b.num])
FracAdd(a, b) ==
    LET g == GCD(a.den, b.den)
    IN  Frac(a.num * (b.den \div g) + b.num * (a.den \div g), (a.den \div g) * b.den)
FracSub(a, b) == FracAdd(a, [num |-> -b.num, den |-> b.den])
FracAbs(a) == [num |-> Abs(a.num), den |-> a.den]
FracPositive(a) == a.num > 0

(***************************************************************************)
(* Numbers of the source.                                                  *)
(***************************************************************************)
UsPerMs == 1000        \* span.get('duration', 0) / 1000.0
MsPerSec == 1000       \* latency / 1000.0
BitsPerByte == 8       \* (bytes_per_sec * 8)
BytesPerKiB == 1024    \* / (1024 * 1024)
Percent == 100         \* * 100

(***************************************************************************)
(* The trace export document (spec section 6), as json.load returns it.    *)
(***************************************************************************)
Tag(k, v) == [key |-> k, value |-> v]
Ref(kind, id) == [refType |-> kind, spanID |-> id]

\* client_span spans: complete, without total_bytes, without tags, without
\* duration, and with a valueless total_files tag and a negative duration.
SpanA == [spanID |-> "a", operationName |-> "client_span", duration |-> 1000,
          tags |-> <<Tag("total_files", VInt(5)), Tag("total_bytes", VInt(100))>>]
SpanB == [spanID |-> "b", operationName |-> "client_span", duration |-> 2000,
          tags |-> <<Tag("total_files", VInt(3))>>]
SpanC == [spanID |-> "c", operationName |-> "client_span", duration |-> 4000]
SpanD == [spanID |-> "d", operationName |-> "client_span",
          tags |-> <<Tag("total_files", VInt(2)), Tag("total_bytes", VInt(50))>>]
SpanE == [spanID |-> "e", operationName |-> "client_span", duration |-> -500,
          tags |-> <<[key |-> "total_files"], Tag("total_bytes", VInt(70))>>]
\* sent_file spans: compressed with a ratio, compressed without one,
\* uncompressed with a ratio.
SpanF == [spanID |-> "f", operationName |-> "sent_file", duration |-> 300,
          tags |-> <<Tag("is_compressed", VBool(TRUE)),
                     Tag("compression_ratio", VFloat([num |-> 2, den |-> 5]))>>,
          references |-> <<Ref("CHILD_OF", "j")>>]
SpanG == [spanID |-> "g", operationName |-> "sent_file", duration |-> 200,
          tags |-> <<Tag("is_compressed", VBool(TRUE))>>,
          references |-> <<Ref("CHILD_OF", "zz")>>]
SpanH == [spanID |-> "h", operationName |-> "sent_file", duration |-> 100,
          tags |-> <<Tag("is_compressed", VBool(FALSE)),
                     Tag("compression_ratio", VFloat([num |-> 9, den |-> 10]))>>]
\* spans of other operations: a parentless one, a child of it, and a nameless
\* one whose references are a FOLLOWS_FROM and a CHILD_OF of an unknown span.
SpanJ == [spanID |-> "j", operationName |-> "transfer", duration |-> 1500,
          tags |-> <<Tag("total_files", VInt(4)), Tag("total_bytes", VInt(80))>>]
SpanK == [spanID |-> "k", operationName |-> "step", duration |-> 700,
          references |-> <<Ref("CHILD_OF", "j")>>]
SpanL == [spanID |-> "l", duration |-> 10,
          references |-> <<Ref("FOLLOWS_FROM", "j"), Ref("CHILD_OF", "zz")>>]
\* a server-side file_span
SpanS == [spanID |-> "s", operationName |-> "file_span", duration |-> 250]

SpanMenu == {SpanA, SpanB, SpanC, SpanD, SpanE, SpanF, SpanG, SpanH,
             SpanJ, SpanK, SpanL}
PairSpanMenu == {SpanA, SpanD, SpanS}

\* The traces with exactly n spans of the menu; a trace may lack its 'spans'.
TracesWith(menu, n, keyless) ==
    {[traceID |-> "t", spans |-> s] : s \in [1..n -> menu]}
        \cup (IF n = 0 /\ keyless THEN {[traceID |-> "t"]} ELSE {})

\* The trace lists whose traces and spans number at most size together.
RECURSIVE TraceLists(_, _, _)
TraceLists(menu, size, keyless) ==
    {<<>>} \cup
    UNION { UNION { { <<tr>> \o rest : rest \in TraceLists(menu, size - 1 - n, keyless) }
                    : tr \in TracesWith(menu, n, keyless) }
            : n \in 0..(size - 1) }

DictDoc(traces) == [kind |-> "dict", keys |-> {"data"}, data |-> traces]
ListDoc(traces) == [kind |-> "list", items |-> traces]
EmptyDictDoc == [kind |-> "dict", keys |-> {}]
OtherDictDoc == [kind |-> "dict", keys |-> {"errors"}]
IntDoc == [kind |-> "int", n |-> 42]
NullDoc == [kind |-> "null"]
StrDoc == [kind |-> "str", has_data |-> FALSE]
StrDataDoc == [kind |-> "str", has_data |-> TRUE]
OddDocs == {EmptyDictDoc, OtherDictDoc, IntDoc, NullDoc, StrDoc, StrDataDoc}

DocsOf(lists) == {DictDoc(l) : l \in lists} \cup {ListDoc(l) : l \in lists}

\* The spec's comparison example: a baseline with twice the variant's spans.
ExampleVariant == 10
ExampleDoc(n) == DictDoc(<<[traceID |-> "t", spans |-> [i \in 1..n |-> SpanA]]>>)

\* The spec's latency example: client_span spans of 1000, 2000 and 3000
\* microseconds, without tags.
LatencySpan(n) ==
    [spanID |-> <<"p1", "p2", "p3">>[n], operationName |-> "client_span",
     duration |-> n * UsPerMs]
LatencyExampleDoc ==
    DictDoc(<<[traceID |-> "t", spans |-> [n \in 1..3 |-> LatencySpan(n)]]>>)

\* Read alone: every 'data' document up to MaxSize, every bare array one smaller.
SingleDocs == {DictDoc(l) : l \in TraceLists(SpanMenu, MaxSize, TRUE)}
                \cup {ListDoc(l) : l \in TraceLists(SpanMenu, MaxSize - 1, TRUE)}
                \cup OddDocs \cup {LatencyExampleDoc}
PairDocs == DocsOf(TraceLists(PairSpanMenu, MaxPairSize, FALSE)) \cup OddDocs
                \cup {ExampleDoc(2 * ExampleVariant), ExampleDoc(ExampleVariant),
                      LatencyExampleDoc}

\* A path names no file, a file that is not JSON, or a JSON document.
Missing == [kind |-> "missing"]
Invalid == [kind |-> "invalid"]
BadFiles == {Missing, Invalid}

(***************************************************************************)
(* JaegerTraceAnalyzer: loading and span access.                           *)
(***************************************************************************)
\* _load_json: the document, or an error message and sys.exit(1).
LoadJson(file) ==
    IF file.kind = "missing" THEN [exit |-> TRUE, printed |-> <<"Error: not found">>, data |-> NullDoc]
    ELSE IF file.kind = "invalid" THEN [exit |-> TRUE, printed |-> <<"Error: Invalid JSON">>, data |-> NullDoc]
    ELSE [exit |-> FALSE, printed |-> <<>>, data |-> file]

\* Python's truth value of a loaded document ("if not self.server_data").
DocTruthy(data) ==
    CASE data.kind = "dict" -> data.keys # {}
      [] data.kind = "list" -> data.items # <<>>
      [] data.kind = "str" -> TRUE
      [] data.kind = "int" -> data.n # 0
      [] data.kind = "null" -> FALSE

\* _extract_traces.  "'data' in data" is a key test on a dict, a membership
\* test on a list (whose items are trace dicts here, never the string), a
\* substring test on a string and a TypeError on a number or None; indexing a
\* string by 'data' is a TypeError too.
ExtractTraces(data) ==
    CASE data.kind = "dict" ->
            IF "data" \in data.keys
            THEN [raised |-> "none", warned |-> FALSE, traces |-> data.data]
            ELSE [raised |-> "none", warned |-> TRUE, traces |-> <<>>]
      [] data.kind = "list" ->
            [raised |-> "none", warned |-> FALSE, traces |-> data.items]
      [] data.kind = "str" ->
            IF data.has_data
            THEN [raised |-> "TypeError", warned |-> FALSE, traces |-> <<>>]
            ELSE [raised |-> "none", warned |-> TRUE, traces |-> <<>>]
      [] data.kind \in {"int", "null"} ->
            [raised |-> "TypeError", warned |-> FALSE, traces |-> <<>>]

\* _get_span_duration_ms: span.get('duration', 0) / 1000.0
GetSpanDurationMs(span) ==
    Frac(IF "duration" \in DOMAIN span THEN span.duration ELSE 0, UsPerMs)

\* _get_span_attribute: the value of the first tag with the key (the default
\* when that tag has no value), the default when no tag has the key.  All
\* three branches on the tag's type return the value unchanged.
GetSpanAttribute(span, key, default) ==
    LET tags == IF "tags" \in DOMAIN span THEN span.tags ELSE <<>>
        hits == {i \in 1..Len(tags) : tags[i].key = key}
    IN  IF hits = {} THEN default
        ELSE LET tag == tags[CHOOSE i \in hits : \A j \in hits : i <= j]
             IN  IF "value" \in DOMAIN tag THEN tag.value ELSE default

\* trace.get('spans', [])
TraceSpans(trace) == IF "spans" \in DOMAIN trace THEN trace.spans ELSE <<>>

\* A variant of the name test that defaults a missing name to the requested one.
SpanNameIsOrMissing(span, span_name) ==
    "operationName" \notin DOMAIN span \/ span.operationName = span_name

\* span.get('operationName') == span_name
SpanNameIs(span, span_name) ==
    "operationName" \in DOMAIN span /\ span.operationName = span_name

\* _get_all_spans_by_name: the inner loop over one trace's spans.
RECURSIVE MatchingInTrace(_, _, _, _)
MatchingInTrace(spans, span_name, i, matching_spans) ==
    IF i > Len(spans) THEN matching_spans
    ELSE MatchingInTrace(spans, span_name, i + 1,
            IF SpanNameIs(spans[i], span_name)
            THEN Append(matching_spans, spans[i])
            ELSE matching_spans)

RECURSIVE MatchingFrom(_, _, _, _)
MatchingFrom(traces, span_name, t, matching_spans) ==
    IF t > Len(traces) THEN matching_spans
    ELSE MatchingFrom(traces, span_name, t + 1,
            MatchingInTrace(TraceSpans(traces[t]), span_name, 1, matching_spans))

GetAllSpansByName(traces, span_name) == MatchingFrom(traces, span_name, 1, <<>>)

\* _get_root_spans: the loop over a span's references, up to its break.
RECURSIVE HasParentFrom(_, _, _)
HasParentFrom(refs, span_ids, r) ==
    IF r > Len(refs) THEN FALSE
    ELSE IF refs[r].refType = "CHILD_OF" /\ refs[r].spanID \in span_ids THEN TRUE
    ELSE HasParentFrom(refs, span_ids, r + 1)

\* A variant of the parent test that takes any CHILD_OF reference for a parent.
HasParentAnyChildOf(span, span_ids) ==
    LET refs == IF "references" \in DOMAIN span THEN span.references ELSE <<>>
    IN  \E r \in 1..Len(refs) : refs[r].refType = "CHILD_OF"

HasParent(span, span_ids) ==
    HasParentFrom(IF "references" \in DOMAIN span THEN span.references ELSE <<>>,
                  span_ids, 1)

RECURSIVE RootsInTrace(_, _, _, _)
RootsInTrace(spans, span_ids, i, root_spans) ==
    IF i > Len(spans) THEN root_spans
    ELSE RootsInTrace(spans, span_ids, i + 1,
            IF ~HasParent(spans[i], span_ids)
            THEN Append(root_spans, spans[i])
            ELSE root_spans)

RECURSIVE RootsFrom(_, _, _)
RootsFrom(traces, t, root_spans) ==
    IF t > Len(traces) THEN root_spans
    ELSE LET spans == TraceSpans(traces[t])
             span_ids == {spans[i].spanID : i \in 1..Len(spans)}
         IN  RootsFrom(traces, t + 1, RootsInTrace(spans, span_ids, 1, root_spans))

GetRootSpans(traces) == RootsFrom(traces, 1, <<>>)

(***************************************************************************)
(* The statistics module as the analyses use it, on exact fractions.       *)
(***************************************************************************)
\* The exact sum of xs[lo..hi] (statistics.mean sums exact ratios, so the
\* order of the additions does not matter; halving keeps the evaluation flat).
RECURSIVE FracSum(_, _, _)
FracSum(xs, lo, hi) ==
    IF lo > hi THEN FracOfInt(0)
    ELSE IF lo = hi THEN xs[lo]
    ELSE LET mid == (lo + hi) \div 2
         IN  FracAdd(FracSum(xs, lo, mid), FracSum(xs, mid + 1, hi))

\* statistics.mean of a non-empty list
Mean(xs) == FracDiv(FracSum(xs, 1, Len(xs)), FracOfInt(Len(xs)))

\* a < b on fractions in lowest terms with positive denominators
FracLess(a, b) == a.num * b.den < b.num * a.den

\* min(xs) and max(xs) of a non-empty list
Min(xs) ==
    xs[CHOOSE i \in 1..Len(xs) : \A j \in 1..Len(xs) : ~FracLess(xs[j], xs[i])]
Max(xs) ==
    xs[CHOOSE i \in 1..Len(xs) : \A j \in 1..Len(xs) : ~FracLess(xs[i], xs[j])]

\* sorted(xs): the stable sort puts xs[i] after the smaller entries and the
\* equal entries that come before it.
Sorted(xs) ==
    LET place(i) == 1 + Cardinality({j \in 1..Len(xs) :
                        FracLess(xs[j], xs[i]) \/ (xs[j] = xs[i] /\ j < i)})
    IN  [k \in 1..Len(xs) |-> xs[CHOOSE i \in 1..Len(xs) : place(i) = k]]

\* statistics.median: the middle entry of the sorted list, the mean of the
\* two middle entries when the length is even.
Median(xs) ==
    LET data == Sorted(xs)
        n == Len(data)
    IN  IF n % 2 = 1 THEN data[n \div 2 + 1]
        ELSE FracDiv(FracAdd(data[n \div 2], data[n \div 2 + 1]), FracOfInt(2))

\* statistics.variance: the squared deviations from the mean over n - 1.
Variance(xs) ==
    LET m == Mean(xs)
        squares == [i \in 1..Len(xs) |->
                       FracMul(FracSub(xs[i], m), FracSub(xs[i], m))]
    IN  FracDiv(FracSum(squares, 1, Len(xs)), FracOfInt(Len(xs) - 1))

\* statistics.stdev: the square root of the variance, kept as the root of an
\* exact value; StatisticsError with fewer than two data points.
Stdev(xs) ==
    IF Len(xs) < 2 THEN [t |-> "StatisticsError"]
    ELSE [t |-> "sqrt", of |-> Variance(xs)]

\* A variant of the guard that asks for the deviation of a single sample.
StdevGuardNonEmpty(latencies) == Len(latencies) > 0

\* "statistics.stdev(latencies) if len(latencies) > 1 else 0"
StdevGuard(latencies) == Len(latencies) > 1

\* The 'latency_ms' entry of the results of both performance analyses.
LatencyStats(latencies) ==
    [average |-> Mean(latencies), min |-> Min(latencies), max |-> Max(latencies),
     median |-> Median(latencies),
     stdev |-> IF StdevGuard(latencies) THEN Stdev(latencies) ELSE VInt(0)]

(***************************************************************************)
(* analyze_client_performance.                                             *)
(***************************************************************************)
NotRun == [ran |-> FALSE]

\* The first loop: one latency per selected span, and the spans' truthy
\* total_files / total_bytes appended to their own lists.
Latencies(spans) == [i \in 1..Len(spans) |-> GetSpanDurationMs(spans[i])]

RECURSIVE TruthyInts(_, _, _, _, _)
TruthyInts(spans, key, default, i, list) ==
    IF i > Len(spans) THEN list
    ELSE LET value == GetSpanAttribute(spans[i], key, default)
         IN  TruthyInts(spans, key, default, i + 1,
                        IF Truthy(value) THEN Append(list, PyInt(value)) ELSE list)

\* A variant of the guard that lets a zero latency through.
ThroughputGuardNonNegative(latency, i, total_files_list) ==
    latency.num >= 0 /\ i <= Len(total_files_list)

\* "if latency > 0 and i < len(total_files_list)", i counted from 1 here.
ThroughputGuard(latency, i, total_files_list) ==
    FracPositive(latency) /\ i <= Len(total_files_list)

\* The throughput loop over enumerate(latencies).  Each sample keeps the index
\* of the span whose latency it divides by and the two list entries it reads.
RECURSIVE ThroughputLoop(_, _, _, _, _)
ThroughputLoop(latencies, total_files_list, total_bytes_list, i, samples) ==
    IF i > Len(latencies) THEN [raised |-> "none", samples |-> samples]
    ELSE IF ThroughputGuard(latencies[i], i, total_files_list)
    THEN IF i > Len(total_bytes_list)
         THEN [raised |-> "IndexError", samples |-> samples]
         ELSE LET latency_sec == FracDiv(latencies[i], FracOfInt(MsPerSec))
                  files_per_sec == FracDiv(FracOfInt(total_files_list[i]), latency_sec)
                  bytes_per_sec == FracDiv(FracOfInt(total_bytes_list[i]), latency_sec)
                  mbps == FracDiv(FracMul(bytes_per_sec, FracOfInt(BitsPerByte)),
                                  FracOfInt(BytesPerKiB * BytesPerKiB))
              IN  ThroughputLoop(latencies, total_files_list, total_bytes_list, i + 1,
                      Append(samples,
                             [i |-> i, files |-> total_files_list[i],
                              bytes |-> total_bytes_list[i],
                              files_per_sec |-> files_per_sec,
                              bytes_per_sec |-> bytes_per_sec, mbps |-> mbps]))
    ELSE ThroughputLoop(latencies, total_files_list, total_bytes_list, i + 1, samples)

ClientBase(data) ==
    [ran |-> TRUE, data |-> data, raised |-> "none", returned |-> "none",
     warned |-> FALSE, traces |-> <<>>, named |-> <<>>, fallback |-> FALSE,
     client_spans |-> <<>>, latencies |-> <<>>, total_files_list |-> <<>>,
     total_bytes_list |-> <<>>, latency_ms |-> None, samples |-> <<>>,
     throughput |-> FALSE, printed |-> <<"CLIENT PERFORMANCE ANALYSIS">>]

AnalyzeClientPerformance(data) ==
    LET ext == ExtractTraces(data)
        traces == ext.traces
        named == GetAllSpansByName(traces, "client_span")
        fallback == named = <<>>
        client_spans == IF fallback THEN GetRootSpans(traces) ELSE named
        latencies == Latencies(client_spans)
        total_files_list == TruthyInts(client_spans, "total_files", VInt(0), 1, <<>>)
        total_bytes_list == TruthyInts(client_spans, "total_bytes", VInt(0), 1, <<>>)
        loop == IF total_files_list # <<>> /\ total_bytes_list # <<>>
                THEN ThroughputLoop(latencies, total_files_list, total_bytes_list, 1, <<>>)
                ELSE [raised |-> "none", samples |-> <<>>]
        base == [ClientBase(data) EXCEPT !.warned = ext.warned]
    IN  IF ext.raised # "none" THEN [base EXCEPT !.raised = ext.raised]
        ELSE IF traces = <<>>
        THEN [base EXCEPT !.returned = "empty",
                          !.printed = @ \o <<"No traces found!">>]
        ELSE IF client_spans = <<>>
        THEN [base EXCEPT !.traces = traces, !.named = named, !.fallback = TRUE,
                          !.returned = "empty",
                          !.printed = @ \o <<"No suitable spans found for analysis!">>]
        ELSE LET sofar == [base EXCEPT !.traces = traces, !.named = named,
                                       !.fallback = fallback,
                                       !.client_spans = client_spans,
                                       !.latencies = latencies,
                                       !.total_files_list = total_files_list,
                                       !.total_bytes_list = total_bytes_list,
                                       !.latency_ms = LatencyStats(latencies),
                                       !.samples = loop.samples]
             IN  IF loop.raised # "none" THEN [sofar EXCEPT !.raised = loop.raised]
                 ELSE [sofar EXCEPT !.returned = "results",
                                    !.throughput = loop.samples # <<>>,
                                    !.printed = @ \o <<"LATENCY">> \o
                                        (IF loop.samples # <<>> THEN <<"THROUGHPUT">>
                                         ELSE <<>>)]

(***************************************************************************)
(* analyze_server_performance.                                             *)
(***************************************************************************)
ServerBase(data) ==
    [ran |-> TRUE, data |-> data, raised |-> "none", returned |-> "none",
     traces |-> <<>>, client_handling_spans |-> <<>>, latencies |-> <<>>,
     num_files_list |-> <<>>, latency_ms |-> None, printed |-> <<>>]

AnalyzeServerPerformance(data) ==
    LET ext == ExtractTraces(data)
        spans == GetAllSpansByName(ext.traces, "client_span")
        banner == [ServerBase(data) EXCEPT !.printed = <<"SERVER PERFORMANCE ANALYSIS">>]
    IN  IF ~DocTruthy(data)
        THEN [ServerBase(data) EXCEPT !.returned = "empty",
                                      !.printed = <<"No server data provided">>]
        ELSE IF ext.raised # "none" THEN [banner EXCEPT !.raised = ext.raised]
        ELSE IF spans = <<>>
        THEN [banner EXCEPT !.traces = ext.traces, !.returned = "empty",
                            !.printed = @ \o <<"No 'client_span' traces found">>]
        ELSE [banner EXCEPT !.traces = ext.traces, !.returned = "results",
                            !.client_handling_spans = spans,
                            !.latencies = Latencies(spans),
                            !.num_files_list =
                                TruthyInts(spans, "num_files_expected", VInt(0), 1, <<>>),
                            !.latency_ms = LatencyStats(Latencies(spans)),
                            !.printed = @ \o <<"SERVER LATENCY">>]

(***************************************************************************)
(* analyze_file_operations.                                                *)
(***************************************************************************)
\* A variant of the pass that takes the ratio of every span that has one.
CompressionStepAnyRatio(span, acc) ==
    LET is_compressed == GetSpanAttribute(span, "is_compressed", None)
        ratio == GetSpanAttribute(span, "compression_ratio", None)
        counted == IF Truthy(is_compressed)
                   THEN [acc EXCEPT !.compressed_count = @ + 1]
                   ELSE [acc EXCEPT !.uncompressed_count = @ + 1]
    IN  IF ratio.t # "none"
        THEN [counted EXCEPT !.compression_ratios = Append(@, PyFloat(ratio))]
        ELSE counted

\* One pass of the compression loop over a sent_file span.
CompressionStep(span, acc) ==
    LET is_compressed == GetSpanAttribute(span, "is_compressed", None)
        ratio == GetSpanAttribute(span, "compression_ratio", None)
    IN  IF Truthy(is_compressed)
        THEN [acc EXCEPT !.compressed_count = @ + 1,
                         !.compression_ratios =
                             IF ratio.t # "none" THEN Append(@, PyFloat(ratio)) ELSE @]
        ELSE [acc EXCEPT !.uncompressed_count = @ + 1]

RECURSIVE CompressionLoop(_, _, _)
CompressionLoop(sent_file_spans, i, acc) ==
    IF i > Len(sent_file_spans) THEN acc
    ELSE CompressionLoop(sent_file_spans, i + 1, CompressionStep(sent_file_spans[i], acc))

FileBase(data, server) ==
    [ran |-> TRUE, data |-> data, server |-> server, raised |-> "none",
     traces |-> <<>>, sent_file_spans |-> <<>>, file_latencies |-> <<>>,
     compressed_count |-> 0, uncompressed_count |-> 0, compression_ratios |-> <<>>,
     original_sizes |-> <<>>, encrypted_sizes |-> <<>>, file_spans |-> <<>>,
     printed |-> <<"FILE OPERATION ANALYSIS">>]

AnalyzeFileOperations(data, server) ==
    LET ext == ExtractTraces(data)
        sent == GetAllSpansByName(ext.traces, "sent_file")
        comp == CompressionLoop(sent, 1, [compressed_count |-> 0,
                                          uncompressed_count |-> 0,
                                          compression_ratios |-> <<>>])
        client_part ==
            IF sent = <<>> THEN [FileBase(data, server) EXCEPT !.traces = ext.traces]
            ELSE [FileBase(data, server) EXCEPT
                    !.traces = ext.traces,
                    !.sent_file_spans = sent,
                    !.file_latencies = Latencies(sent),
                    !.compressed_count = comp.compressed_count,
                    !.uncompressed_count = comp.uncompressed_count,
                    !.compression_ratios = comp.compression_ratios,
                    !.original_sizes = TruthyInts(sent, "original_size", None, 1, <<>>),
                    !.encrypted_sizes = TruthyInts(sent, "encrypted_size", None, 1, <<>>),
                    !.printed = @ \o <<"FILE SEND OPERATIONS", "Compression Statistics">>]
        sext == ExtractTraces(server)
        file_spans == GetAllSpansByName(sext.traces, "file_span")
    IN  IF ext.raised # "none" THEN [FileBase(data, server) EXCEPT !.raised = ext.raised]
        ELSE IF ~DocTruthy(server) THEN client_part
        ELSE IF sext.raised # "none" THEN [client_part EXCEPT !.raised = sext.raised]
        ELSE IF file_spans = <<>> THEN client_part
        ELSE [client_part EXCEPT !.file_spans = file_spans,
                                 !.printed = @ \o <<"FILE RECEIVE OPERATIONS">>]

(***************************************************************************)
(* analyze_tracing_overhead.                                               *)
(***************************************************************************)
\* sum(len(trace.get('spans', [])) for trace in traces)
RECURSIVE TotalSpans(_, _)
TotalSpans(traces, t) ==
    IF t > Len(traces) THEN 0
    ELSE Len(TraceSpans(traces[t])) + TotalSpans(traces, t + 1)

\* span.get('operationName', 'unknown')
OpNameOrUnknown(span) ==
    IF "operationName" \in DOMAIN span THEN span.operationName ELSE "unknown"

\* span_types[op_name] += 1 on a defaultdict(int)
RECURSIVE CountInTrace(_, _, _)
CountInTrace(spans, i, span_types) ==
    IF i > Len(spans) THEN span_types
    ELSE LET op_name == OpNameOrUnknown(spans[i])
         IN  CountInTrace(spans, i + 1,
                IF op_name \in DOMAIN span_types
                THEN [span_types EXCEPT ![op_name] = @ + 1]
                ELSE span_types @@ (op_name :> 1))

RECURSIVE CountFrom(_, _, _)
CountFrom(traces, t, span_types) ==
    IF t > Len(traces) THEN span_types
    ELSE CountFrom(traces, t + 1, CountInTrace(TraceSpans(traces[t]), 1, span_types))

NoCounts == [name \in {} |-> 0]

OverheadBase(data) ==
    [ran |-> TRUE, data |-> data, raised |-> "none", traces |-> <<>>,
     total_spans |-> 0, avg_spans_per_trace |-> FracOfInt(0),
     span_types |-> NoCounts, printed |-> <<"TRACING OVERHEAD ANALYSIS">>]

AnalyzeTracingOverhead(data) ==
    LET ext == ExtractTraces(data)
        traces == ext.traces
        total_spans == TotalSpans(traces, 1)
        counted == [OverheadBase(data) EXCEPT !.traces = traces,
                                              !.total_spans = total_spans,
                                              !.printed = @ \o <<"Total spans collected">>]
    IN  IF ext.raised # "none" THEN [OverheadBase(data) EXCEPT !.raised = ext.raised]
        ELSE IF Len(traces) = 0 THEN [counted EXCEPT !.raised = "ZeroDivisionError"]
        ELSE [counted EXCEPT !.avg_spans_per_trace = Frac(total_spans, Len(traces)),
                             !.span_types = CountFrom(traces, 1, NoCounts),
                             !.printed = @ \o <<"Average spans per trace", "Span distribution">>]

(***************************************************************************)
(* compare_sampling_rates.                                                 *)
(***************************************************************************)
\* A variant of the reduction taken relative to the second configuration.
ReductionOverSecond(total_spans1, total_spans2) ==
    FracMul(Frac(total_spans1 - total_spans2, total_spans2), FracOfInt(Percent))

\* ((total_spans1 - total_spans2) / total_spans1) * 100
Reduction(total_spans1, total_spans2) ==
    FracMul(Frac(total_spans1 - total_spans2, total_spans1), FracOfInt(Percent))

\* "if len(traces1) > 0 and len(traces2) > 0"
ReductionGuard(traces1, traces2) == Len(traces1) > 0 /\ Len(traces2) > 0

CompareBase(data1, data2) ==
    [ran |-> TRUE, data1 |-> data1, data2 |-> data2, raised |-> "none",
     traces1 |-> <<>>, traces2 |-> <<>>, total_spans1 |-> 0, total_spans2 |-> 0,
     reported |-> FALSE, reduction |-> FracOfInt(0),
     latency_compared |-> FALSE, mean1 |-> FracOfInt(0), mean2 |-> FracOfInt(0),
     difference |-> FracOfInt(0), overhead_reported |-> FALSE,
     overhead_pct |-> FracOfInt(0), printed |-> <<"COMPARISON">>]

CompareSamplingRates(data1, data2) ==
    LET ext1 == ExtractTraces(data1)
        ext2 == ExtractTraces(data2)
        traces1 == ext1.traces
        traces2 == ext2.traces
        total_spans1 == TotalSpans(traces1, 1)
        total_spans2 == TotalSpans(traces2, 1)
        totals == [CompareBase(data1, data2) EXCEPT
                     !.traces1 = traces1, !.traces2 = traces2,
                     !.total_spans1 = total_spans1, !.total_spans2 = total_spans2,
                     !.printed = @ \o <<"Total spans">>]
        reduced == IF ReductionGuard(traces1, traces2)
                   THEN [totals EXCEPT !.reported = TRUE,
                                       !.reduction = Reduction(total_spans1, total_spans2),
                                       !.printed = @ \o <<"Span reduction">>]
                   ELSE totals
        client_spans1 == GetAllSpansByName(traces1, "client_span")
        client_spans2 == GetAllSpansByName(traces2, "client_span")
        mean1 == Mean(Latencies(client_spans1))
        mean2 == Mean(Latencies(client_spans2))
        compared == [reduced EXCEPT !.latency_compared = TRUE,
                                    !.mean1 = mean1, !.mean2 = mean2,
                                    !.difference = FracAbs(FracSub(mean1, mean2)),
                                    !.printed = @ \o <<"Latency Comparison">>]
    IN  IF ext1.raised # "none"
        THEN [CompareBase(data1, data2) EXCEPT !.raised = ext1.raised]
        ELSE IF ext2.raised # "none"
        THEN [CompareBase(data1, data2) EXCEPT !.raised = ext2.raised,
                                               !.traces1 = traces1]
        ELSE IF ReductionGuard(traces1, traces2) /\ total_spans1 = 0
        THEN [totals EXCEPT !.raised = "ZeroDivisionError"]
        ELSE IF client_spans1 = <<>> \/ client_spans2 = <<>> THEN reduced
        ELSE IF ~FracPositive(mean2) THEN compared
        ELSE [compared EXCEPT
                !.overhead_reported = TRUE,
                !.overhead_pct = FracMul(FracDiv(FracSub(mean1, mean2), mean2),
                                         FracOfInt(Percent)),
                !.printed = @ \o <<"Overhead">>]

(***************************************************************************)
(* The callers: JaegerTraceAnalyzer.__init__, main(), and a library user.  *)
(***************************************************************************)
Paths == {"f1", "f2", "--compare"}

\* A variant of __init__ that puts off reading the server file: a server path
\* that cannot be loaded leaves server_data None instead of exiting.
NewAnalyzerLazyServer(files, client_json_path, server_json_path) ==
    LET client == LoadJson(files[client_json_path])
        server == IF server_json_path # ""
                  THEN LoadJson(files[server_json_path])
                  ELSE [exit |-> FALSE, printed |-> <<>>, data |-> NullDoc]
    IN  [exit |-> client.exit, printed |-> client.printed,
         client_data |-> client.data, server_data |-> server.data]

\* __init__: client_data is loaded, then server_data when a server path is
\* given (None otherwise); either load may print an error and sys.exit(1).
\* A path of "" stands for None / no argument.
NewAnalyzer(files, client_json_path, server_json_path) ==
    LET client == LoadJson(files[client_json_path])
        server == IF server_json_path # ""
                  THEN LoadJson(files[server_json_path])
                  ELSE [exit |-> FALSE, printed |-> <<>>, data |-> NullDoc]
    IN  IF client.exit
        THEN [exit |-> TRUE, printed |-> client.printed,
              client_data |-> NullDoc, server_data |-> NullDoc]
        ELSE [exit |-> server.exit, printed |-> server.printed,
              client_data |-> client.data, server_data |-> server.data]

\* "sys.argv[1] == '--compare' and len(sys.argv) >= 4"; argv here is
\* sys.argv[1:], so sys.argv[k] is argv[k].
IsCompareMode(args) == Len(args) >= 3 /\ args[1] = "--compare"

\* What a call leaves the caller at: the next position, or the traceback of
\* an exception nobody catches.
After(res, next) == IF res.raised # "none" THEN "traceback" ELSE next

Results == <<clientRes, serverRes, fileRes, overheadRes, cmpRes>>
Inputs == <<entry, argv, fs>>
Analyzers == <<client_data, server_data, other_data>>

\* main(): "if len(sys.argv) < 2": usage, sys.exit(1)
MainUsage ==
    /\ entry = "script" /\ pc = "main" /\ Len(argv) < 1
    /\ out' = out \o <<"Usage">>
    /\ pc' = "exit1"
    /\ UNCHANGED <<Inputs, Correlation, Transfer, Analyzers, Results>>

\* main(), comparison mode: analyzer1 = JaegerTraceAnalyzer(sys.argv[2])
MainNewAnalyzer1 ==
    /\ entry = "script" /\ pc = "main" /\ IsCompareMode(argv)
    /\ LET a == NewAnalyzer(fs, argv[2], "")
       IN  /\ out' = out \o a.printed
           /\ pc' = IF a.exit THEN "exit1" ELSE "cmp_new2"
           /\ client_data' = a.client_data
           /\ server_data' = a.server_data
    /\ UNCHANGED <<Inputs, Correlation, Transfer, other_data, Results>>

\* main(), comparison mode: analyzer2 = JaegerTraceAnalyzer(sys.argv[3])
MainNewAnalyzer2 ==
    /\ entry = "script" /\ pc = "cmp_new2"
    /\ LET a == NewAnalyzer(fs, argv[3], "")
       IN  /\ out' = out \o a.printed
           /\ pc' = IF a.exit THEN "exit1" ELSE "cmp_client1"
           /\ other_data' = a.client_data
    /\ UNCHANGED <<Inputs, Correlation, Transfer, client_data, server_data, Results>>

\* main(), normal mode: analyzer = JaegerTraceAnalyzer(client_json, server_json)
MainNewAnalyzer ==
    /\ entry = "script" /\ pc = "main" /\ Len(argv) >= 1 /\ ~IsCompareMode(argv)
    /\ LET a == NewAnalyzer(fs, argv[1], IF Len(argv) > 1 THEN argv[2] ELSE "")
       IN  /\ out' = out \o a.printed
           /\ pc' = IF a.exit THEN "exit1" ELSE "client"
           /\ client_data' = a.client_data
           /\ server_data' = a.server_data
    /\ UNCHANGED <<Inputs, Correlation, Transfer, other_data, Results>>

\* The five public methods, called at position at and returning to next.
CallClient(at, data, before, next) ==
    /\ pc = at
    /\ clientRes' = AnalyzeClientPerformance(data)
    /\ out' = out \o before \o clientRes'.printed
    /\ pc' = After(clientRes', next)
    /\ UNCHANGED <<Inputs, Correlation, Transfer, Analyzers, serverRes, fileRes, overheadRes, cmpRes>>

CallServer(at, data, next) ==
    /\ pc = at
    /\ serverRes' = AnalyzeServerPerformance(data)
    /\ out' = out \o serverRes'.printed
    /\ pc' = After(serverRes', next)
    /\ UNCHANGED <<Inputs, Correlation, Transfer, Analyzers, clientRes, fileRes, overheadRes, cmpRes>>

CallFile(at, data, server, next) ==
    /\ pc = at
    /\ fileRes' = AnalyzeFileOperations(data, server)
    /\ out' = out \o fileRes'.printed
    /\ pc' = After(fileRes', next)
    /\ UNCHANGED <<Inputs, Correlation, Transfer, Analyzers, clientRes, serverRes, overheadRes, cmpRes>>

CallOverhead(at, data, after, next) ==
    /\ pc = at
    /\ overheadRes' = AnalyzeTracingOverhead(data)
    /\ out' = out \o overheadRes'.printed
                  \o (IF overheadRes'.raised = "none" THEN after ELSE <<>>)
    /\ pc' = After(overheadRes', next)
    /\ UNCHANGED <<Inputs, Correlation, Transfer, Analyzers, clientRes, serverRes, fileRes, cmpRes>>

CallCompare(at, data1, data2, next) ==
    /\ pc = at
    /\ cmpRes' = CompareSamplingRates(data1, data2)
    /\ out' = out \o cmpRes'.printed
    /\ pc' = After(cmpRes', next)
    /\ UNCHANGED <<Inputs, Correlation, Transfer, Analyzers, clientRes, serverRes, fileRes, overheadRes>>

\* main(), normal mode: the four analyses in order, then "Analysis complete!"
MainClient == entry = "script" /\ CallClient("client", client_data, <<>>, "server")
MainServer == entry = "script" /\ CallServer("server", server_data, "file")
MainFile == entry = "script" /\ CallFile("file", client_data, server_data, "overhead")
MainOverhead ==
    entry = "script" /\ CallOverhead("overhead", client_data, <<"Analysis complete!">>, "exit0")

\* main(), comparison mode: three analyses of each analyzer, then the comparison
MainClient1 ==
    entry = "script" /\ CallClient("cmp_client1", client_data,
                                   <<"Analyzing first configuration...">>, "cmp_file1")
MainFile1 == entry = "script" /\ CallFile("cmp_file1", client_data, server_data, "cmp_overhead1")
MainOverhead1 == entry = "script" /\ CallOverhead("cmp_overhead1", client_data, <<>>, "cmp_client2")
MainClient2 ==
    entry = "script" /\ CallClient("cmp_client2", other_data,
                                   <<"Analyzing second configuration...">>, "cmp_file2")
MainFile2 == entry = "script" /\ CallFile("cmp_file2", other_data, NullDoc, "cmp_overhead2")
MainOverhead2 == entry = "script" /\ CallOverhead("cmp_overhead2", other_data, <<>>, "cmp_compare")
MainCompare == entry = "script" /\ CallCompare("cmp_compare", client_data, other_data, "exit0")

\* A library user builds the analyzer (two of them to compare) ...
LibNew ==
    /\ entry = "library" /\ pc = "lib_new"
    /\ LET a == IF IsCompareMode(argv) THEN NewAnalyzer(fs, argv[2], "")
                ELSE NewAnalyzer(fs, argv[1], IF Len(argv) > 1 THEN argv[2] ELSE "")
           b == IF IsCompareMode(argv) /\ ~a.exit THEN NewAnalyzer(fs, argv[3], "")
                ELSE [exit |-> FALSE, printed |-> <<>>,
                      client_data |-> NullDoc, server_data |-> NullDoc]
       IN  /\ out' = out \o a.printed \o b.printed
           /\ pc' = IF a.exit \/ b.exit THEN "exit1" ELSE "lib_ready"
           /\ client_data' = a.client_data
           /\ server_data' = a.server_data
           /\ other_data' = b.client_data
    /\ UNCHANGED <<Inputs, Correlation, Transfer, Results>>

\* ... and calls one of its methods.
LibClient == entry = "library" /\ CallClient("lib_ready", client_data, <<>>, "lib_returned")
LibServer == entry = "library" /\ CallServer("lib_ready", server_data, "lib_returned")
LibFile == entry = "library" /\ CallFile("lib_ready", client_data, server_data, "lib_returned")
LibOverhead == entry = "library" /\ CallOverhead("lib_ready", client_data, <<>>, "lib_returned")
LibCompare ==
    /\ entry = "library" /\ IsCompareMode(argv)
    /\ CallCompare("lib_ready", client_data, other_data, "lib_returned")

Files(f1, f2, fc) == ("f1" :> f1) @@ ("f2" :> f2) @@ ("--compare" :> fc)

Init ==
    /\ entry \in {"script", "library"}
    /\ \/ /\ argv = <<>> /\ entry = "script"
          /\ fs = Files(Missing, Missing, Missing)
       \/ /\ argv = <<"f1">>
          /\ \E f1 \in SingleDocs \cup BadFiles : fs = Files(f1, Missing, Missing)
       \/ /\ argv \in {<<"f1", "f2">>, <<"--compare", "f1", "f2">>}
          /\ \E f1, f2 \in PairDocs \cup BadFiles : fs = Files(f1, f2, Missing)
       \/ /\ argv = <<"--compare", "f1">> /\ entry = "script"
          /\ \E f1 \in PairDocs \cup BadFiles, fc \in {Missing, DictDoc(<<>>)} :
                fs = Files(f1, Missing, fc)
    /\ pc = IF entry = "script" THEN "main" ELSE "lib_new"
    /\ client_data = NullDoc /\ server_data = NullDoc /\ other_data = NullDoc
    /\ out = <<>>
    /\ clientRes = NotRun /\ serverRes = NotRun /\ fileRes = NotRun
    /\ overheadRes = NotRun /\ cmpRes = NotRun
    /\ CorrelationIdle /\ TransferIdle

Next ==
    \/ MainUsage \/ MainNewAnalyzer1 \/ MainNewAnalyzer2 \/ MainNewAnalyzer
    \/ MainClient \/ MainServer \/ MainFile \/ MainOverhead
    \/ MainClient1 \/ MainFile1 \/ MainOverhead1
    \/ MainClient2 \/ MainFile2 \/ MainOverhead2 \/ MainCompare
    \/ LibNew \/ LibClient \/ LibServer \/ LibFile \/ LibOverhead \/ LibCompare

Spec == Init /\ [][Next]_vars

(***************************************************************************)
(* The Predicate Correlation Engine (spec section 4.2).  The repository    *)
(* holds no source for it, so its operations follow the specification:     *)
(* add_run accumulates per-predicate true-counts by outcome, and           *)
(* compute_metrics ranks the predicates from the accumulated counts.       *)
(***************************************************************************)
MaxRuns == 3     \* runs added in one analysis session
MaxCalls == 2    \* compute_metrics calls in one analysis session

\* The predicate names a run may carry, in the order a run lists them.
PredicateNames == <<"a", "b">>
NameSet == {PredicateNames[i] : i \in 1..Len(PredicateNames)}

\* A run's predicates: a mapping from the names observed in its span to
\* their boolean values; an unobserved name is absent.
PredicateMaps == UNION {[S -> BOOLEAN] : S \in SUBSET NameSet}

\* A variant that counts every predicate present in the run.
IsPresentIn(predicates, p) == p \in DOMAIN predicates

\* "each predicate present and true in predicates"
IsTrueIn(predicates, p) == p \in DOMAIN predicates /\ predicates[p]

\* A PredicateStat as first created, and one increment of it by outcome.
NewStat == [true_under_success |-> 0, true_under_failure |-> 0]
Increment(stat, success) ==
    IF success THEN [stat EXCEPT !.true_under_success = @ + 1]
    ELSE [stat EXCEPT !.true_under_failure = @ + 1]

\* add_run's pass over the run's predicates: a stat is created at the first
\* true observation of its name, and incremented at every true observation.
RECURSIVE CountRun(_, _, _)
CountRun(acc, run, i) ==
    IF i > Len(PredicateNames) THEN acc
    ELSE LET p == PredicateNames[i]
             known == p \in DOMAIN acc.stats
             stat == IF known THEN acc.stats[p] ELSE NewStat
         IN  IF IsTrueIn(run.predicates, p)
             THEN CountRun([stats |-> (p :> Increment(stat, run.success)) @@ acc.stats,
                            order |-> IF known THEN acc.order ELSE Append(acc.order, p)],
                           run, i + 1)
             ELSE CountRun(acc, run, i + 1)

\* The summary counts of the run log.
TotalSuccess(run_log) == Cardinality({i \in 1..Len(run_log) : run_log[i].success})
TotalFailure(run_log) == Cardinality({i \in 1..Len(run_log) : ~run_log[i].success})

EmptyEngine ==
    [state |-> "Empty", run_log |-> <<>>, stats |-> [p \in {} |-> NewStat],
     order |-> <<>>]

\* One MetricResult row.
MetricRow(e, p) ==
    LET total_success == TotalSuccess(e.run_log)
        total_failure == TotalFailure(e.run_log)
        failure_metric == Frac(e.stats[p].true_under_failure, total_failure)
        context_metric == IF total_success = 0 THEN FracOfInt(0)
                          ELSE Frac(e.stats[p].true_under_success, total_success)
    IN  [predicate |-> p,
         failure_metric |-> failure_metric,
         context_metric |-> context_metric,
         increase_metric |-> FracSub(failure_metric, context_metric),
         true_under_failure |-> e.stats[p].true_under_failure,
         true_under_success |-> e.stats[p].true_under_success,
         total_true |-> e.stats[p].true_under_failure + e.stats[p].true_under_success]

\* The rows sorted by increase_metric descending, ties in the order of first
\* observation.
Ranked(rows) ==
    LET place(i) == 1 + Cardinality({j \in 1..Len(rows) :
                        \/ FracLess(rows[i].increase_metric, rows[j].increase_metric)
                        \/ (rows[j].increase_metric = rows[i].increase_metric /\ j < i)})
    IN  [k \in 1..Len(rows) |-> rows[CHOOSE i \in 1..Len(rows) : place(i) = k]]

\* A variant of compute_metrics without the guard on failing runs.
MetricsUnguarded(e) ==
    IF TotalFailure(e.run_log) = 0 /\ e.order # <<>>
    THEN [raised |-> "ZeroDivisionError", no_failures |-> FALSE, rows |-> <<>>]
    ELSE [raised |-> "none", no_failures |-> FALSE,
          rows |-> Ranked([i \in 1..Len(e.order) |-> MetricRow(e, e.order[i])])]

\* compute_metrics: NoFailuresObserved and no rows without a failing run,
\* otherwise the ranked rows.
Metrics(e) ==
    IF TotalFailure(e.run_log) = 0
    THEN [raised |-> "none", no_failures |-> TRUE, rows |-> <<>>]
    ELSE [raised |-> "none", no_failures |-> FALSE,
          rows |-> Ranked([i \in 1..Len(e.order) |-> MetricRow(e, e.order[i])])]

Analysis == <<Inputs, pc, Analyzers, out, Results>>

\* add_run(run_id, success, predicates), valid in Empty and Accumulating
AddRun ==
    /\ engine.state \in {"Empty", "Accumulating"}
    /\ Len(engine.run_log) < MaxRuns
    /\ \E success \in BOOLEAN, predicates \in PredicateMaps :
          LET run == [run_id |-> Len(engine.run_log) + 1, success |-> success,
                      predicates |-> predicates]
              counted == CountRun([stats |-> engine.stats, order |-> engine.order],
                                  run, 1)
          IN  engine' = [state |-> "Accumulating",
                         run_log |-> Append(engine.run_log, run),
                         stats |-> counted.stats, order |-> counted.order]
    /\ UNCHANGED <<Analysis, Transfer, metrics>>

\* compute_metrics(), which finalizes the session and may be called again
ComputeMetrics ==
    /\ engine.state \in {"Empty", "Accumulating", "Finalized"}
    /\ metrics.calls < MaxCalls
    /\ engine' = [engine EXCEPT !.state = "Finalized"]
    /\ metrics' = [computed |-> TRUE, calls |-> metrics.calls + 1] @@ Metrics(engine)
    /\ UNCHANGED <<Analysis, Transfer>>

\* The analyzer and the server do not run during an engine session.
AnalysisIdle ==
    /\ entry = "none" /\ argv = <<>> /\ fs = Files(Missing, Missing, Missing)
    /\ pc = "none"
    /\ client_data = NullDoc /\ server_data = NullDoc /\ other_data = NullDoc
    /\ out = <<>>
    /\ clientRes = NotRun /\ serverRes = NotRun /\ fileRes = NotRun
    /\ overheadRes = NotRun /\ cmpRes = NotRun

EngineInit ==
    /\ engine = EmptyEngine
    /\ metrics = [computed |-> FALSE, calls |-> 0]
    /\ AnalysisIdle /\ TransferIdle

EngineNext == AddRun \/ ComputeMetrics

EngineSpec == EngineInit /\ [][EngineNext]_vars

(***************************************************************************)
(* server.py: the receive sequence over one accepted connection.  The      *)
(* client frames its stream as an 8-byte file count, then for every file   *)
(* an 8-byte size and the body, and may close after any prefix of it.      *)
(***************************************************************************)
MaxFiles == 2           \* files the client announces
HeaderBytes == 8        \* struct.calcsize("<Q")
ChunkBytes == 1024      \* min(1024, filesize - received_bytes)

\* The sizes of the files a client sends: empty, shorter than a chunk, and
\* one byte longer than a chunk.
FileSizes == {0, 2, ChunkBytes + 1}
Plans == UNION {[1..n -> FileSizes] : n \in 0..MaxFiles}

\* The lengths of the stream's segments: count header, then size header and
\* body of every file.
RECURSIVE SegmentLens(_, _)
SegmentLens(plan, i) ==
    IF i > Len(plan) THEN <<>>
    ELSE <<HeaderBytes, plan[i]>> \o SegmentLens(plan, i + 1)

RECURSIVE SumTo(_, _)
SumTo(lens, k) == IF k = 0 THEN 0 ELSE lens[k] + SumTo(lens, k - 1)

\* How much of the stream the client sends before it closes: up to the end
\* of a segment, or up to the middle of one.
CutPoints(plan) ==
    LET lens == <<HeaderBytes>> \o SegmentLens(plan, 1)
    IN  {SumTo(lens, k) : k \in 0..Len(lens)}
          \cup {SumTo(lens, k - 1) + lens[k] \div 2 : k \in 1..Len(lens)}

\* What sck.recv(n) may return from a buffer of avail > 0 bytes: all it can,
\* or a short read of half of that.
RecvSizes(n, avail) ==
    LET m == IF n < avail THEN n ELSE avail
    IN  {m, (m + 1) \div 2}

\* "for i in range(num_files)": the next receive_file call, or the end of
\* the with block ("Connection closed.").
StartFile(s) ==
    IF s.i < s.num_files
    THEN [s EXCEPT !.pc = "receive_file_size", !.reading = "filesize",
                   !.received_bytes = 0]
    ELSE [s EXCEPT !.pc = "done"]

\* receive_file has returned: "File i received."
AfterFile(s) == StartFile([s EXCEPT !.i = @ + 1])

\* receive_file_size returns the unpacked value: to the module's loop as
\* num_files, or to receive_file as filesize, which then opens the file and
\* enters its loop (not at all for an empty file).
AfterHeader(s, plan) ==
    IF s.reading = "num_files"
    THEN StartFile([s EXCEPT !.num_files = Len(plan), !.i = 0])
    ELSE LET filesize == plan[s.i + 1]
             opened == [s EXCEPT !.filesize = filesize, !.received_bytes = 0,
                                 !.files = Append(@, [announced |-> filesize,
                                                      written |-> 0])]
         IN  IF filesize = 0 THEN AfterFile(opened)
             ELSE [opened EXCEPT !.pc = "receive_file"]

\* receive_file_size, one pass of "while received_bytes < expected_bytes"
\* with a chunk of k bytes: stream += chunk; received_bytes += len(chunk).
SizeChunk(s, plan, k) ==
    IF s.received_bytes + k < HeaderBytes
    THEN [s EXCEPT !.received_bytes = @ + k, !.empty_chunk = (k = 0)]
    ELSE AfterHeader([s EXCEPT !.received_bytes = @ + k, !.empty_chunk = FALSE], plan)

\* receive_file, one pass of "while received_bytes < filesize" with a chunk
\* of k bytes: ConnectionError on the empty chunk, else f.write(chunk).
BodyChunk(s, k) ==
    IF k = 0 THEN [s EXCEPT !.pc = "ConnectionError", !.empty_chunk = TRUE]
    ELSE LET more == [s EXCEPT !.received_bytes = @ + k, !.empty_chunk = FALSE,
                               !.files[Len(s.files)].written = @ + k]
         IN  IF more.received_bytes < more.filesize THEN more ELSE AfterFile(more)

\* sck.recv(n): some bytes of the buffer, the empty chunk once the peer has
\* closed and the buffer is drained; it blocks on an empty open connection.
Recv(n, k) ==
    \/ /\ conn.buffered > 0 /\ k \in RecvSizes(n, conn.buffered)
       /\ conn' = [conn EXCEPT !.buffered = @ - k]
    \/ /\ conn.buffered = 0 /\ conn.closed /\ k = 0
       /\ conn' = conn

\* server.accept(), then the first receive_file_size call
Accept ==
    /\ srv.pc = "accept"
    /\ srv' = [srv EXCEPT !.pc = "receive_file_size", !.reading = "num_files",
                          !.received_bytes = 0]
    /\ UNCHANGED <<Analysis, Correlation, conn>>

ReceiveFileSizeStep ==
    /\ srv.pc = "receive_file_size"
    /\ \E k \in 0..HeaderBytes :
          /\ Recv(HeaderBytes - srv.received_bytes, k)
          /\ srv' = SizeChunk(srv, conn.plan, k)
    /\ UNCHANGED <<Analysis, Correlation>>

ReceiveFileStep ==
    /\ srv.pc = "receive_file"
    /\ LET left == srv.filesize - srv.received_bytes
           bytes_to_receive == IF ChunkBytes < left THEN ChunkBytes ELSE left
       IN  \E k \in 0..bytes_to_receive :
              /\ Recv(bytes_to_receive, k)
              /\ srv' = BodyChunk(srv, k)
    /\ UNCHANGED <<Analysis, Correlation>>

\* The client closes its end; what it sent before stays readable.
ClientClose ==
    /\ conn.open /\ ~conn.closed
    /\ conn' = [conn EXCEPT !.closed = TRUE]
    /\ UNCHANGED <<Analysis, Correlation, srv>>

ServerInit ==
    /\ \E plan \in Plans : \E cut \in CutPoints(plan) :
          conn = [open |-> TRUE, plan |-> plan, sent |-> cut, buffered |-> cut,
                  closed |-> FALSE]
    /\ srv = [pc |-> "accept", reading |-> "num_files", received_bytes |-> 0,
              num_files |-> 0, i |-> 0, filesize |-> 0, files |-> <<>>,
              empty_chunk |-> FALSE]
    /\ AnalysisIdle /\ CorrelationIdle

ServerNext == Accept \/ ReceiveFileSizeStep \/ ReceiveFileStep \/ ClientClose

ServerSpec == ServerInit /\ [][ServerNext]_vars

(***************************************************************************)
(* Vocabulary of the properties, stated on the documents themselves.       *)
(***************************************************************************)
\* All spans of all traces, in trace order and then span order.
RECURSIVE AllSpans(_)
AllSpans(traces) ==
    IF traces = <<>> THEN <<>>
    ELSE TraceSpans(Head(traces)) \o AllSpans(Tail(traces))

\* A document of one of the two export shapes of spec section 6.
WellShaped(data) ==
    data.kind = "list" \/ (data.kind = "dict" /\ "data" \in data.keys)

\* The span carries a tag with this key and a value.
HasTagValue(span, key) ==
    /\ "tags" \in DOMAIN span
    /\ \E i \in 1..Len(span.tags) :
          span.tags[i].key = key /\ "value" \in DOMAIN span.tags[i]

\* The value of the span's tag with this key (keys are unique within a span).
TagValue(span, key) ==
    span.tags[CHOOSE i \in 1..Len(span.tags) : span.tags[i].key = key].value

\* The span's own count for a key: its tag's value as an integer, 0 without one.
OwnCount(span, key) ==
    IF HasTagValue(span, key) THEN PyInt(TagValue(span, key)) ELSE 0

\* The span's duration in microseconds is present and positive.
PositiveDuration(span) == "duration" \in DOMAIN span /\ span.duration > 0

AnalysisBanners ==
    {"CLIENT PERFORMANCE ANALYSIS", "SERVER PERFORMANCE ANALYSIS",
     "FILE OPERATION ANALYSIS", "TRACING OVERHEAD ANALYSIS", "COMPARISON",
     "Analyzing first configuration...", "Analyzing second configuration...",
     "No server data provided", "Analysis complete!"}

\* The files main() is asked to read.
InputPaths ==
    IF Len(argv) < 1 THEN {}
    ELSE IF IsCompareMode(argv) THEN {argv[2], argv[3]}
    ELSE {argv[i] : i \in 1..(IF Len(argv) > 1 THEN 2 ELSE 1)}

BadInput == \E path \in InputPaths : fs[path] \in BadFiles

(***************************************************************************)
(* C1. Whenever the export is well shaped and only its spans are malformed *)
(* (no duration, no tags, a tag missing), the three analyses complete      *)
(* without raising.  The code does not: see C1's counterexample trace.     *)
(***************************************************************************)
C1_MalformedSpansTolerated ==
    /\ (clientRes.ran /\ WellShaped(clientRes.data)) => clientRes.raised = "none"
    /\ (serverRes.ran /\ WellShaped(serverRes.data)) => serverRes.raised = "none"
    /\ (fileRes.ran /\ WellShaped(fileRes.data)
          /\ (WellShaped(fileRes.server) \/ ~DocTruthy(fileRes.server)))
         => fileRes.raised = "none"

(***************************************************************************)
(* C2. Every throughput sample divides, by its span's latency, the         *)
(* total_files and total_bytes of that same span.                          *)
(***************************************************************************)
C2_ThroughputPairedPerSpan ==
    clientRes.ran =>
        \A k \in 1..Len(clientRes.samples) :
            LET sample == clientRes.samples[k]
                span == clientRes.client_spans[sample.i]
            IN  /\ sample.files = OwnCount(span, "total_files")
                /\ sample.bytes = OwnCount(span, "total_bytes")

(***************************************************************************)
(* C3. A comparison in which either configuration has no spans fails with  *)
(* InsufficientData, and no comparison faults with a division by zero.     *)
(***************************************************************************)
C3_InsufficientData ==
    (cmpRes.ran /\ WellShaped(cmpRes.data1) /\ WellShaped(cmpRes.data2)) =>
        /\ cmpRes.raised # "ZeroDivisionError"
        /\ (Len(AllSpans(cmpRes.traces1)) = 0 \/ Len(AllSpans(cmpRes.traces2)) = 0)
              => cmpRes.raised = "InsufficientData"

(***************************************************************************)
(* C4. When an input file of main() is missing or not JSON, the process    *)
(* has printed no analysis output, and it is either still constructing its *)
(* analyzers or has exited with status 1 after reporting the error.        *)
(***************************************************************************)
C4_BadInputExitsBeforeAnalysis ==
    (entry = "script" /\ BadInput) =>
        /\ pc \in {"main", "cmp_new2", "exit1"}
        /\ \A i \in 1..Len(out) : out[i] \notin AnalysisBanners
        /\ pc = "exit1" => \E i \in 1..Len(out) :
                              out[i] \in {"Error: not found", "Error: Invalid JSON"}
        /\ clientRes = NotRun /\ serverRes = NotRun /\ fileRes = NotRun
        /\ overheadRes = NotRun /\ cmpRes = NotRun
    /\ CorrelationIdle /\ TransferIdle

\* C4's case: the first file was read, the second is bad, and main() exited.
C4_Witness ==
    /\ entry = "script" /\ pc = "exit1" /\ Len(argv) > 1
    /\ fs["f1"] \notin BadFiles /\ fs["f2"] \in BadFiles
    /\ out # <<>>

(***************************************************************************)
(* C5. _extract_traces returns the 'data' array of a document that has     *)
(* one, a bare array itself, and for every other document an empty         *)
(* sequence with a warning and without raising.                            *)
(***************************************************************************)
C5_ExtractTraces ==
    clientRes.ran =>
        LET data == clientRes.data
        IN  IF data.kind = "dict" /\ "data" \in data.keys
            THEN clientRes.traces = data.data /\ ~clientRes.warned
            ELSE IF data.kind = "list"
            THEN clientRes.traces = data.items /\ ~clientRes.warned
            ELSE /\ clientRes.raised = "none"
                 /\ clientRes.warned
                 /\ clientRes.traces = <<>>

(***************************************************************************)
(* C6. The root-span fallback returns, trace by trace and in span order,   *)
(* exactly the spans with no CHILD_OF reference to a span id of their own  *)
(* trace; a lone span without any CHILD_OF reference is the sole entry.    *)
(***************************************************************************)
IsRootIn(span, spans) ==
    ~ \E r \in 1..Len(IF "references" \in DOMAIN span THEN span.references ELSE <<>>) :
          /\ span.references[r].refType = "CHILD_OF"
          /\ \E j \in 1..Len(spans) : spans[j].spanID = span.references[r].spanID

RECURSIVE RootsOf(_)
RootsOf(traces) ==
    IF traces = <<>> THEN <<>>
    ELSE LET spans == TraceSpans(Head(traces))
             Root(span) == IsRootIn(span, spans)
         IN  SelectSeq(spans, Root) \o RootsOf(Tail(traces))

HasNoChildOf(span) ==
    \A r \in 1..Len(IF "references" \in DOMAIN span THEN span.references ELSE <<>>) :
        span.references[r].refType # "CHILD_OF"

C6_RootSpans ==
    (clientRes.ran /\ clientRes.fallback) =>
        /\ clientRes.client_spans = RootsOf(clientRes.traces)
        /\ (Len(AllSpans(clientRes.traces)) = 1
              /\ HasNoChildOf(AllSpans(clientRes.traces)[1]))
             => clientRes.client_spans = AllSpans(clientRes.traces)

\* C6's case: a span whose CHILD_OF parent sits in the other trace is a root,
\* and so is its parent.
C6_Witness ==
    /\ clientRes.ran /\ clientRes.fallback
    /\ Len(clientRes.traces) = 2
    /\ clientRes.client_spans = <<SpanJ, SpanK>>

\* C6's other case: in one trace, the child is no root and the span whose
\* only CHILD_OF parent is unknown is one.
C6_WitnessSameTrace ==
    /\ clientRes.ran /\ clientRes.fallback
    /\ AllSpans(clientRes.traces) = <<SpanJ, SpanK, SpanG>>
    /\ clientRes.client_spans = <<SpanJ, SpanG>>

(***************************************************************************)
(* C7. _get_all_spans_by_name returns exactly the spans of the requested   *)
(* operation name, each once, in trace order and then span order.          *)
(***************************************************************************)
NamedIn(traces, span_name) ==
    LET Named(span) == "operationName" \in DOMAIN span /\ span.operationName = span_name
    IN  SelectSeq(AllSpans(traces), Named)

C7_SpansByOperation ==
    /\ clientRes.ran => clientRes.named = NamedIn(clientRes.traces, "client_span")
    /\ fileRes.ran => fileRes.sent_file_spans = NamedIn(fileRes.traces, "sent_file")

\* C7's case: two traces; the matching spans come in trace order.
C7_Witness ==
    /\ clientRes.ran
    /\ Len(clientRes.traces) = 2
    /\ clientRes.named = <<SpanB, SpanA>>

(***************************************************************************)
(* C8. Every selected span gives one latency sample, its duration in       *)
(* milliseconds (0 without one); a throughput sample comes only from a     *)
(* span of positive latency, at most one from each.                        *)
(***************************************************************************)
C8_LatencyAndThroughputSamples ==
    clientRes.ran =>
        LET spans == clientRes.client_spans
            samples == clientRes.samples
        IN  /\ Len(clientRes.latencies) = Len(spans)
            /\ \A i \in 1..Len(spans) :
                  clientRes.latencies[i].num * UsPerMs =
                      (IF "duration" \in DOMAIN spans[i] THEN spans[i].duration ELSE 0)
                          * clientRes.latencies[i].den
            /\ \A k \in 1..Len(samples) : PositiveDuration(spans[samples[k].i])
            /\ \A k, l \in 1..Len(samples) : samples[k].i = samples[l].i => k = l
            /\ Len(samples) <= Cardinality({i \in 1..Len(spans) : PositiveDuration(spans[i])})

\* C8's case: a span without duration and a span of negative duration are
\* selected beside one that gives a throughput sample.
C8_Witness ==
    /\ clientRes.ran /\ clientRes.returned = "results"
    /\ clientRes.samples # <<>>
    /\ \E i \in 1..Len(clientRes.client_spans) : clientRes.client_spans[i] = SpanD
    /\ \E i \in 1..Len(clientRes.client_spans) : clientRes.client_spans[i] = SpanE

(***************************************************************************)
(* C9. The compression loop puts every sent_file span in exactly one       *)
(* bucket by the truth of its is_compressed tag, and takes a ratio sample  *)
(* exactly from the compressed spans that carry a compression_ratio.       *)
(***************************************************************************)
IsCompressed(span) ==
    HasTagValue(span, "is_compressed") /\ Truthy(TagValue(span, "is_compressed"))

C9_CompressionPartition ==
    fileRes.ran =>
        LET spans == fileRes.sent_file_spans
            compressed == {i \in 1..Len(spans) : IsCompressed(spans[i])}
            with_ratio == {i \in compressed : HasTagValue(spans[i], "compression_ratio")}
        IN  /\ fileRes.compressed_count + fileRes.uncompressed_count = Len(spans)
            /\ fileRes.compressed_count = Cardinality(compressed)
            /\ Len(fileRes.compression_ratios) = Cardinality(with_ratio)
            /\ Len(fileRes.compression_ratios) <= fileRes.compressed_count

\* C9's case: a compressed span without a ratio beside an uncompressed span
\* that carries one.
C9_Witness ==
    /\ fileRes.ran
    /\ \E i \in 1..Len(fileRes.sent_file_spans) : fileRes.sent_file_spans[i] = SpanG
    /\ \E i \in 1..Len(fileRes.sent_file_spans) : fileRes.sent_file_spans[i] = SpanH
    /\ \E i \in 1..Len(fileRes.sent_file_spans) : fileRes.sent_file_spans[i] = SpanF
    /\ Len(fileRes.compression_ratios) = 1

(***************************************************************************)
(* C10. The comparison reports (totalA - totalB) / totalA * 100 as the     *)
(* span reduction.  As first stated: whenever A has at least one span.     *)
(***************************************************************************)
ReductionIs(totalA, totalB) ==
    /\ cmpRes.reported
    /\ cmpRes.reduction.num * totalA = (totalA - totalB) * Percent * cmpRes.reduction.den
    /\ cmpRes.reduction.den > 0

RECURSIVE SumOfCounts(_, _)
SumOfCounts(span_types, names) ==
    IF names = {} THEN 0
    ELSE LET name == CHOOSE n \in names : TRUE
         IN  span_types[name] + SumOfCounts(span_types, names \ {name})

C11_OverheadStats ==
    (overheadRes.ran /\ ExtractTraces(overheadRes.data).raised = "none") =>
        LET traces == ExtractTraces(overheadRes.data).traces
            spans == AllSpans(traces)
            nameless == {i \in 1..Len(spans) : "operationName" \notin DOMAIN spans[i]}
        IN  /\ overheadRes.raised = "none"
            /\ overheadRes.total_spans = Len(spans)
            /\ overheadRes.avg_spans_per_trace.num * Len(traces)
                  = overheadRes.total_spans * overheadRes.avg_spans_per_trace.den
            /\ SumOfCounts(overheadRes.span_types, DOMAIN overheadRes.span_types)
                  = overheadRes.total_spans
            /\ nameless # {} =>
                  /\ "unknown" \in DOMAIN overheadRes.span_types
                  /\ overheadRes.span_types["unknown"] = Cardinality(nameless)

(***************************************************************************)
(* C12. Both performance analyses report one latency per selected span,    *)
(* its microsecond duration over 1000 (0 without a duration), with         *)
(* min <= median <= max and min <= mean <= max, and a stdev of 0 when      *)
(* fewer than two spans are selected; durations 1000, 2000, 3000 give      *)
(* mean 2, min 1, max 3, median 2.                                         *)
(***************************************************************************)
FracLeq(a, b) == a.num * b.den <= b.num * a.den

DurationsOf(spans) ==
    [i \in 1..Len(spans) |->
        IF "duration" \in DOMAIN spans[i] THEN spans[i].duration ELSE 0]

LatencyStatsHold(spans, latencies, stats) ==
    /\ Len(latencies) = Len(spans)
    /\ \A i \in 1..Len(spans) :
          latencies[i].num * UsPerMs = DurationsOf(spans)[i] * latencies[i].den
    /\ FracLeq(stats.min, stats.median) /\ FracLeq(stats.median, stats.max)
    /\ FracLeq(stats.min, stats.average) /\ FracLeq(stats.average, stats.max)
    /\ Len(spans) < 2 => stats.stdev = VInt(0)
    /\ DurationsOf(spans) = <<1000, 2000, 3000>> =>
          /\ stats.average = FracOfInt(2) /\ stats.median = FracOfInt(2)
          /\ stats.min = FracOfInt(1) /\ stats.max = FracOfInt(3)

C12_LatencyStats ==
    /\ (clientRes.ran /\ clientRes.client_spans # <<>>) =>
          LatencyStatsHold(clientRes.client_spans, clientRes.latencies,
                           clientRes.latency_ms)
    /\ (serverRes.ran /\ serverRes.client_handling_spans # <<>>) =>
          LatencyStatsHold(serverRes.client_handling_spans, serverRes.latencies,
                           serverRes.latency_ms)

\* C12's case: main() analyses the three-span example as the client export
\* and a single span without a duration as the server export.
C12_Witness ==
    /\ entry = "script"
    /\ clientRes.ran /\ clientRes.returned = "results"
    /\ DurationsOf(clientRes.client_spans) = <<1000, 2000, 3000>>
    /\ clientRes.latency_ms.stdev = [t |-> "sqrt", of |-> FracOfInt(1)]
    /\ serverRes.ran /\ serverRes.returned = "results"
    /\ serverRes.client_handling_spans = <<SpanD>>
    /\ serverRes.latency_ms.average = FracOfInt(0)
    /\ serverRes.latency_ms.stdev = VInt(0)

(***************************************************************************)
(* C13. After any sequence of add_run calls every predicate's counters are *)
(* bounded by the matching run totals; a call never decrements a counter,  *)
(* increments one only for a predicate present and true in the added run,  *)
(* and leaves both counters of an absent or false predicate unchanged.     *)
(***************************************************************************)
CounterOf(e, p, field) == IF p \in DOMAIN e.stats THEN e.stats[p][field] ELSE 0

CountersBounded ==
    engine.state # "none" =>
        \A p \in NameSet :
            /\ CounterOf(engine, p, "true_under_failure") <= TotalFailure(engine.run_log)
            /\ CounterOf(engine, p, "true_under_success") <= TotalSuccess(engine.run_log)

CountersStep ==
    (engine.state # "none" /\ Len(engine'.run_log) = Len(engine.run_log) + 1) =>
        LET run == engine'.run_log[Len(engine'.run_log)]
        IN  \A p \in NameSet, field \in {"true_under_failure", "true_under_success"} :
               LET before == CounterOf(engine, p, field)
                   after == CounterOf(engine', p, field)
                   counted == /\ p \in DOMAIN run.predicates /\ run.predicates[p]
                              /\ run.success = (field = "true_under_success")
               IN  /\ after >= before
                   /\ after = before + (IF counted THEN 1 ELSE 0)

C13_CountersBoundedAndMonotone == []CountersBounded /\ [][CountersStep]_vars

\* C13's case: the three runs of the spec's example, in which b is false in
\* a failing run and a is false in the successful one.
C13_Witness ==
    /\ engine.state = "Accumulating"
    /\ Len(engine.run_log) = 3
    /\ engine.run_log[1].predicates = ("a" :> TRUE) @@ ("b" :> FALSE)
    /\ ~engine.run_log[1].success
    /\ engine.run_log[2].predicates = ("a" :> FALSE) @@ ("b" :> TRUE)
    /\ engine.run_log[2].success
    /\ engine.run_log[3].predicates = ("a" :> TRUE) @@ ("b" :> TRUE)
    /\ ~engine.run_log[3].success
    /\ engine.stats["a"] = [true_under_success |-> 0, true_under_failure |-> 2]
    /\ engine.stats["b"] = [true_under_success |-> 1, true_under_failure |-> 1]

(***************************************************************************)
(* C14. compute_metrics after add_run calls without a failing run returns  *)
(* no rows and the NoFailuresObserved indicator, without a fault; a call   *)
(* leaves the accumulated counts as they were, and a repeated call returns *)
(* what the call before it returned.                                       *)
(***************************************************************************)
NoFailuresResult ==
    (metrics.computed /\ TotalFailure(engine.run_log) = 0) =>
        /\ metrics.raised = "none"
        /\ metrics.rows = <<>>
        /\ metrics.no_failures

ComputeStep ==
    (metrics.computed' /\ metrics'.calls = metrics.calls + 1) =>
        /\ engine'.run_log = engine.run_log
        /\ engine'.stats = engine.stats /\ engine'.order = engine.order
        /\ metrics.computed =>
              /\ metrics'.rows = metrics.rows
              /\ metrics'.no_failures = metrics.no_failures
              /\ metrics'.raised = metrics.raised

C14_NoFailuresObserved == []NoFailuresResult /\ [][ComputeStep]_vars

\* C14's case: a second call after successful runs in which a predicate was
\* true, so that a count is recorded though no run failed.
C14_Witness ==
    /\ metrics.computed /\ metrics.calls = 2
    /\ Len(engine.run_log) >= 2
    /\ TotalFailure(engine.run_log) = 0
    /\ "a" \in DOMAIN engine.stats /\ engine.stats["a"].true_under_success >= 1
    /\ metrics.no_failures /\ metrics.rows = <<>>

(***************************************************************************)
(* C15. Once the client has closed, the receive sequence ends: a recv that *)
(* returns the empty chunk raises ConnectionError instead of being         *)
(* repeated; the sequence ends normally only with every announced file     *)
(* received in full; and no file is written beyond its announced size.     *)
(* The code repeats the empty recv in receive_file_size for ever.          *)
(***************************************************************************)
\* The connection is closed and drained while a header is still incomplete:
\* every further pass of the loop receives the empty chunk again.
Spinning ==
    /\ srv.pc = "receive_file_size" /\ srv.empty_chunk
    /\ conn.closed /\ conn.buffered = 0
    /\ srv.received_bytes < HeaderBytes

C15_ReceiveTerminatesOnClose ==
    srv.pc # "none" =>
        /\ srv.empty_chunk => srv.pc = "ConnectionError"
        /\ ~Spinning
        /\ srv.pc = "done" =>
              /\ Len(srv.files) = Len(conn.plan)
              /\ \A f \in 1..Len(srv.files) :
                    srv.files[f].written = srv.files[f].announced
        /\ \A f \in 1..Len(srv.files) : srv.files[f].written <= srv.files[f].announced

====
